---- MODULE Spec2Model ----
(***************************************************************************)
(* Process pool of effect-utils-process-pool.                              *)
(*                                                                         *)
(* The pool (ProcessPoolLive, dist/index.cjs 135-265) keeps a              *)
(* Ref<HashMap<id, ManagedProcessImpl>>.  Every pool operation is an       *)
(* Effect.gen fiber: one step of a fiber is the execution of one yielded   *)
(* effect followed by the synchronous generator code up to the next        *)
(* yield*.  Other fibers and the callbacks of the node ChildProcess        *)
(* ('spawn', 'exit', 'error') may run between two steps.                   *)
(***************************************************************************)
EXTENDS Integers, Sequences, FiniteSets, TLC

\* ---- bounds ------------------------------------------------------------
MaxProcs == 2          \* OS processes created in one run
MaxCalls == 3          \* calls that change something (reads are not counted)

\* ---- finite input sets -------------------------------------------------
IdSeq == <<"a", "b">>                      \* ids in HashMap iteration order
Ids == {IdSeq[i] : i \in 1..Len(IdSeq)}
CallerSeq == <<"c1", "c2">>                  \* fibers running caller requests
Callers == {CallerSeq[k] : k \in 1..Len(CallerSeq)}
Fibers == Callers \cup {"finalizer"}
Procs == 1..MaxProcs
NoProc == 0
ExitCodes == {0, 1}
Capacities == {1, 2}                       \* values of maxConcurrent

None == <<>>
Some(x) == <<x>>

VARIABLES
    config,        \* PoolConfig: maxConcurrent, healthCheckInterval set or not
    processes,     \* the Ref<HashMap>: id -> ManagedProcessImpl (NoProc: absent)
    procs,         \* every ChildProcess/ManagedProcessImpl created so far
    nprocs,        \* how many of them
    fibers,        \* caller fibers and the finalizer fiber
    sweeper,       \* the healthCheck fiber
    scopeClosed,   \* the pool's scope has been closed
    calls,         \* calls made so far, capped by MaxCalls
    lastRet,       \* the result handed to a caller by the last step
    readable,      \* the stdout Readable of one process and its listeners
    consumers,     \* the consumptions of managed.stdout
    writer,        \* the fiber of a managed.write(data) call
    stdin,         \* per process: bytes the OS took from write and the process has not read
    stderr         \* the stderr Readable of the same process and its listeners

vars == <<config, processes, procs, nprocs, fibers, sweeper, scopeClosed, calls, lastRet,
          readable, consumers, writer, stdin, stderr>>

\* ---- the registry (HashMap operations) ---------------------------------
EmptyMap == [i \in Ids |-> NoProc]
HashMapSize(m) == Cardinality({i \in Ids : m[i] # NoProc})
HashMapHas(m, i) == m[i] # NoProc
HashMapSet(m, i, p) == [m EXCEPT ![i] = p]
\* A removal that empties the map.  C31 must tell it from HashMap.remove.
HashMapRemove_All(m, i) == EmptyMap
HashMapRemove(m, i) == [m EXCEPT ![i] = NoProc]
\* Array.from(HashMap.values(m)), in iteration order.
RECURSIVE ValuesFrom(_, _)
ValuesFrom(m, k) ==
    IF k > Len(IdSeq) THEN <<>>
    ELSE IF m[IdSeq[k]] # NoProc THEN <<m[IdSeq[k]]>> \o ValuesFrom(m, k + 1)
    ELSE ValuesFrom(m, k + 1)
HashMapValues(m) == ValuesFrom(m, 1)

\* ---- ManagedProcessImpl / ChildProcess ---------------------------------
\* A slot of procs that no spawn has used yet.
Unborn ==
    [id |-> IdSeq[1], pid |-> FALSE, killed |-> FALSE,
     exited |-> FALSE, exitCode |-> None, signalCode |-> None,
     currentStatus |-> "starting", pendingSpawn |-> FALSE, pendingError |-> FALSE,
     exitObserver |-> FALSE, awaitedBy |-> None, signals |-> <<>>,
     escaped |-> FALSE]

\* new ManagedProcessImpl(id, config, child) on the result of child_process.spawn:
\* launched = the OS assigned a pid; otherwise node queues an 'error' event.
NewManaged(i, launched) ==
    [Unborn EXCEPT !.id = i, !.pid = launched,
                   !.currentStatus = IF launched THEN "running" ELSE "starting",
                   !.pendingSpawn = launched, !.pendingError = ~launched]

\* childProcess.kill(sig): delivers the signal while node still holds the
\* process handle (no exit notification yet) and then sets killed; after the
\* exit notification it does nothing and returns false.
ChildKill(pr, sig) ==
    IF pr.exited THEN pr
    ELSE [pr EXCEPT !.killed = TRUE, !.signals = Append(@, sig)]

\* childProcess.kill(sig) when the OS refuses the signal (EPERM): nothing is
\* delivered, killed stays false and node emits 'error' at once, which the
\* handle's 'error' listener turns into the status error.
ChildKillRefused(pr) ==
    IF pr.exited THEN pr
    ELSE [pr EXCEPT !.currentStatus = "error"]

\* A guard that asks for a pid only and lets a signaled process be signaled
\* again.  C38 must tell it from the guard of interrupt() and kill().
MaySignal_PidOnly(pr) == pr.pid

\* The guard shared by ManagedProcessImpl.interrupt() and kill().
MaySignal(pr) == pr.pid /\ ~pr.killed

\* The OS is asked to deliver a signal only then, and only then can refuse.
Refusable(pr) == MaySignal(pr) /\ ~pr.exited

\* Body shared by ManagedProcessImpl.interrupt() and kill(); delivered tells
\* whether the OS accepted the signal.
HandleSignal(pr, sig, delivered) ==
    IF MaySignal(pr)
    THEN IF delivered
         THEN ChildKill([pr EXCEPT !.currentStatus = "stopping"], sig)
         ELSE ChildKillRefused([pr EXCEPT !.currentStatus = "stopping"])
    ELSE pr

HandleInterrupt(pr, delivered) == HandleSignal(pr, "SIGINT", delivered)
HandleKill(pr, delivered) == HandleSignal(pr, "SIGTERM", delivered)

\* An 'exit' listener that looks at the exit code only: a process ended by a
\* signal has no code and would count as failed.  C8 must tell the two apart.
ExitStatus_CodeOnly(code, signal) ==
    IF code # Some(0) THEN "error" ELSE "stopped"

\* The 'exit' listener of the ManagedProcessImpl constructor.
ExitStatus(code, signal) ==
    IF signal # None THEN "stopped"
    ELSE IF code # Some(0) THEN "error"
    ELSE "stopped"

\* ---- fibers ------------------------------------------------------------
Idle == [pc |-> "idle", id |-> IdSeq[1], managed |-> NoProc, todo |-> <<>>]
IdleSweeper == [pc |-> "idle", snap |-> EmptyMap, idx |-> 0]

\* What the step just taken returned to a caller, if it completed a call.
NoRet == [op |-> "none", id |-> IdSeq[1], tag |-> "none",
          maxConcurrent |-> 0, currentCount |-> 0, value |-> 0]
Ret(o, i, t) == [NoRet EXCEPT !.op = o, !.id = i, !.tag = t]

\* A caller fiber is taken from the free ones in a fixed order.
FreeCaller(f) ==
    /\ calls < MaxCalls
    /\ f \in Callers
    /\ fibers[f].pc = "idle"
    /\ \A k \in 1..Len(CallerSeq) :
          CallerSeq[k] = f => \A j \in 1..(k - 1) : fibers[CallerSeq[j]].pc # "idle"

\* ---- managed.stdout: the Readable and its consumptions ----------------------
MaxChunks == 2         \* 'data' events of the stdout Readable
MaxBytes == 2          \* bytes waiting in the stdout pipe
ConsumerSeq == <<"k1", "k2">>               \* runs of the stream managed.stdout
Consumers == {ConsumerSeq[k] : k \in 1..Len(ConsumerSeq)}
Events == {"data", "end", "error"}

\* child.stdout before anybody listens: paused, nothing emitted.
\* out holds the bytes the process has written that are not yet emitted.
NewReadable == [emitted |-> 0, flowing |-> FALSE, ended |-> FALSE, errored |-> FALSE,
                listeners |-> [e \in Events |-> {}], out |-> <<>>]
\* A run of the stream that has not been started.  queue is the buffer of
\* Stream.asyncScoped, got lists the chunks the run has handed downstream
\* and collected the strings it handed on for them.
NewConsumer == [pc |-> "idle", queue |-> <<>>, got |-> <<>>, collected |-> <<>>,
                result |-> "none", finalizer |-> FALSE]

\* What emit.single, emit.end and emit.fail put into the buffer.
Single(chunk, text) == [tag |-> "single", chunk |-> chunk, text |-> text]
End == [tag |-> "end", chunk |-> 0, text |-> <<>>]
Fail == [tag |-> "ProcessPoolError", chunk |-> 0, text |-> <<>>]

\* ---- text and bytes ----------------------------------------------------------
\* A string is a sequence of characters: "a" (U+0061, one byte in UTF-8) and
\* "e-acute" (U+00E9, two bytes); "U+FFFD" is the replacement character a
\* decoder puts for bytes that are no character.
Chars == {"a", "e-acute"}
Bytes == {"61", "C3", "A9"}
Texts == {<<"a">>, <<"e-acute">>}           \* data given to write

\* The UTF-8 bytes of a string, as stdin.write(data) sends them.
RECURSIVE Utf8Encode(_)
Utf8Encode(text) ==
    IF text = <<>> THEN <<>>
    ELSE (IF Head(text) = "a" THEN <<"61">> ELSE <<"C3", "A9">>) \o Utf8Encode(Tail(text))

\* chunk.toString('utf-8'): decodes the bytes of this one chunk; bytes that
\* are not a whole character within the chunk become U+FFFD.
RECURSIVE ToStringUtf8(_)
ToStringUtf8(chunk) ==
    IF chunk = <<>> THEN <<>>
    ELSE IF Head(chunk) = "61" THEN <<"a">> \o ToStringUtf8(Tail(chunk))
    ELSE IF Head(chunk) = "C3" /\ Len(chunk) >= 2 /\ chunk[2] = "A9"
         THEN <<"e-acute">> \o ToStringUtf8(Tail(Tail(chunk)))
    ELSE <<"U+FFFD">> \o ToStringUtf8(Tail(chunk))

\* ---- managed.write --------------------------------------------------------------
\* No write call is running.
IdleWriter == [pc |-> "idle", managed |-> NoProc, data |-> <<>>, err |-> FALSE]

Init ==
    /\ config \in [maxConcurrent : Capacities, healthCheckInterval : BOOLEAN]
    /\ processes = EmptyMap
    /\ procs = [p \in Procs |-> Unborn]
    /\ nprocs = 0
    /\ fibers = [f \in Fibers |-> Idle]
    /\ sweeper = IdleSweeper
    /\ scopeClosed = FALSE
    /\ calls = 0
    /\ lastRet = NoRet
    /\ readable = NewReadable
    /\ consumers = [k \in Consumers |-> NewConsumer]
    /\ writer = IdleWriter
    /\ stdin = [p \in Procs |-> <<>>]
    /\ stderr = NewReadable

\* ---- spawn -------------------------------------------------------------
\* The admission test with > in place of >=: a pool that admits one spawn too
\* many.  C2 must tell the two apart.
AtCapacity_Strict(currentSize) == currentSize > config.maxConcurrent

\* The admission test of spawn.
AtCapacity(currentSize) == currentSize >= config.maxConcurrent

\* spawn, first step: Ref.get, the admission test, child_process.spawn and
\* new ManagedProcessImpl.
Spawn(f, i, launched) ==
    /\ FreeCaller(f)
    /\ calls' = calls + 1
    /\ LET currentSize == HashMapSize(processes) IN
       IF AtCapacity(currentSize)
       THEN /\ lastRet' = [Ret("spawn", i, "ProcessLimitError") EXCEPT
                                !.maxConcurrent = config.maxConcurrent,
                                !.currentCount = currentSize]
            /\ launched
            /\ UNCHANGED <<procs, nprocs, fibers, stderr>>
       ELSE /\ nprocs < MaxProcs
            /\ nprocs' = nprocs + 1
            /\ procs' = [procs EXCEPT ![nprocs + 1] = NewManaged(i, launched)]
            /\ fibers' = [fibers EXCEPT ![f] =
                    [Idle EXCEPT !.pc = "spawn_await", !.id = i, !.managed = nprocs + 1]]
            /\ lastRet' = NoRet
    /\ UNCHANGED <<config, processes, sweeper, scopeClosed, readable, consumers, writer, stdin, stderr>>

\* spawn, second step: the Effect.async that waits for the launch.  With a
\* pid it resumes at once and the exit observer is attached; without one it
\* registers once('spawn') / once('error') and the fiber stays suspended.
SpawnAwait(f) ==
    /\ fibers[f].pc = "spawn_await"
    /\ LET p == fibers[f].managed IN
       IF procs[p].pid
       THEN /\ procs' = [procs EXCEPT ![p].exitObserver = TRUE]
            /\ fibers' = [fibers EXCEPT ![f].pc = "spawn_insert"]
       ELSE /\ procs' = [procs EXCEPT ![p].awaitedBy = Some(f)]
            /\ fibers' = [fibers EXCEPT ![f].pc = "spawn_suspended"]
    /\ lastRet' = NoRet
    /\ UNCHANGED <<config, processes, nprocs, sweeper, scopeClosed, calls, readable, consumers, writer, stdin, stderr>>

\* An insertion that writes back a registry holding the new entry only, as a
\* read-modify-write on a snapshot could.  C24 must tell it from Ref.update.
SpawnInsert_Overwrites(f) ==
    /\ fibers[f].pc = "spawn_insert"
    /\ LET p == fibers[f].managed
           i == fibers[f].id IN
       /\ processes' = HashMapSet(EmptyMap, i, p)
       /\ procs' = [procs EXCEPT ![p].escaped = TRUE]
       /\ fibers' = [fibers EXCEPT ![f] = Idle]
       /\ lastRet' = [Ret("spawn", i, "ok") EXCEPT !.value = p]
    /\ UNCHANGED <<config, nprocs, sweeper, scopeClosed, calls, readable, consumers, writer, stdin, stderr>>

\* spawn, last step: Ref.update(HashMap.set(id, managed)); return managed.
SpawnInsert(f) ==
    /\ fibers[f].pc = "spawn_insert"
    /\ LET p == fibers[f].managed
           i == fibers[f].id IN
       /\ processes' = HashMapSet(processes, i, p)
       /\ procs' = [procs EXCEPT ![p].escaped = TRUE]
       /\ fibers' = [fibers EXCEPT ![f] = Idle]
       /\ lastRet' = [Ret("spawn", i, "ok") EXCEPT !.value = p]
    /\ UNCHANGED <<config, nprocs, sweeper, scopeClosed, calls, readable, consumers, writer, stdin, stderr>>

\* ---- ChildProcess events -----------------------------------------------
\* A 'spawn' listener that reports a launched process as idle until it is
\* used.  C33 must tell it from the listener of the constructor.
OnSpawn_Idle(p) ==
    /\ p <= nprocs /\ procs[p].pendingSpawn
    /\ procs' = [procs EXCEPT ![p].pendingSpawn = FALSE, ![p].currentStatus = "idle"]
    /\ lastRet' = NoRet
    /\ UNCHANGED <<config, processes, nprocs, fibers, sweeper, scopeClosed, calls, readable, consumers, writer, stdin, stderr>>

\* 'spawn': queued by node when the launch succeeded.
OnSpawn(p) ==
    /\ p <= nprocs /\ procs[p].pendingSpawn
    /\ procs' = [procs EXCEPT ![p].pendingSpawn = FALSE, ![p].currentStatus = "running"]
    /\ lastRet' = NoRet
    /\ UNCHANGED <<config, processes, nprocs, fibers, sweeper, scopeClosed, calls, readable, consumers, writer, stdin, stderr>>

\* 'error': queued by node when the launch failed.  The handle's listener
\* runs first, then the once('error') of a suspended spawn, which fails it.
OnError(p) ==
    /\ p <= nprocs /\ procs[p].pendingError
    /\ procs' = [procs EXCEPT ![p].pendingError = FALSE, ![p].currentStatus = "error",
                              ![p].awaitedBy = None]
    /\ IF procs[p].awaitedBy # None
       THEN /\ fibers' = [fibers EXCEPT ![procs[p].awaitedBy[1]] = Idle]
            /\ lastRet' = Ret("spawn", procs[p].id, "ProcessPoolError")
       ELSE /\ lastRet' = NoRet
            /\ UNCHANGED fibers
    /\ UNCHANGED <<config, processes, nprocs, sweeper, scopeClosed, calls, readable, consumers, writer, stdin, stderr>>

\* 'exit' with (code, signal): the handle's listener sets the status, then
\* the pool's exit observer, when already attached, removes the id.  A
\* process ends with an exit code, or by a signal that was sent to it.
OnExit(p, code, signal) ==
    /\ p <= nprocs /\ procs[p].pid /\ ~procs[p].exited /\ ~procs[p].pendingSpawn
    /\ \/ signal = None /\ code # None
       \/ code = None /\ \E k \in 1..Len(procs[p].signals) : signal = Some(procs[p].signals[k])
    /\ procs' = [procs EXCEPT ![p].exited = TRUE, ![p].exitCode = code,
                              ![p].signalCode = signal,
                              ![p].currentStatus = ExitStatus(code, signal)]
    /\ processes' = IF procs[p].exitObserver
                    THEN HashMapRemove(processes, procs[p].id)
                    ELSE processes
    /\ lastRet' = NoRet
    /\ UNCHANGED <<config, nprocs, fibers, sweeper, scopeClosed, calls, readable, consumers, writer, stdin, stderr>>

\* ---- get / has / size ---------------------------------------------------
\* A lookup that ignores the key and answers with any entry of the registry.
\* C3 must tell it from HashMap.get.
Lookup_AnyEntry(current, i) ==
    IF \E j \in Ids : HashMapHas(current, j)
    THEN Some(current[CHOOSE j \in Ids : HashMapHas(current, j)])
    ELSE None

\* HashMap.get(current, id) as used by get, kill, interrupt and has.
Lookup(current, i) == IF HashMapHas(current, i) THEN Some(current[i]) ELSE None

\* An unknown id reported as a ProcessPoolError, as a failed signal would be.
\* C6 must tell it from the ProcessNotFoundError.
NotFound_AsPoolError(o, i) == Ret(o, i, "ProcessPoolError")

NotFound(o, i) == Ret(o, i, "ProcessNotFoundError")

\* What get(id), has(id) and size() return on the registry m.
GetResult(m, i) ==
    IF Lookup(m, i) = None THEN NotFound("get", i)
    ELSE [Ret("get", i, "ok") EXCEPT !.value = Lookup(m, i)[1]]
HasResult(m, i) == Lookup(m, i) # None
SizeResult(m) == HashMapSize(m)

\* The three reads take one step, Ref.get, and change nothing.
Get(i) ==
    /\ GetResult(processes, i).tag \in {"ok", "ProcessNotFoundError"}
    /\ UNCHANGED vars

Has(i) ==
    /\ HasResult(processes, i) \in BOOLEAN
    /\ UNCHANGED vars

Size ==
    /\ SizeResult(processes) \in 0..Cardinality(Ids)
    /\ UNCHANGED vars

\* ---- pool.kill / pool.interrupt ------------------------------------------
\* First step of both: Ref.get and the lookup.
PoolLookup(f, i, o, pcSignal) ==
    /\ FreeCaller(f)
    /\ calls' = calls + 1
    /\ IF Lookup(processes, i) = None
       THEN /\ lastRet' = NotFound(o, i)
            /\ UNCHANGED fibers
       ELSE /\ lastRet' = NoRet
            /\ fibers' = [fibers EXCEPT ![f] =
                    [Idle EXCEPT !.pc = pcSignal, !.id = i,
                                 !.managed = Lookup(processes, i)[1]]]
    /\ UNCHANGED <<config, processes, procs, nprocs, sweeper, scopeClosed, readable, consumers, writer, stdin, stderr>>

\* A last step that returns without the Ref.update, leaving the removal to the
\* exit observer.  C4 must tell it from the immediate removal.
PoolRemove_KeepsEntry(f, o, pcRemove) ==
    /\ fibers[f].pc = pcRemove
    /\ fibers' = [fibers EXCEPT ![f] = Idle]
    /\ lastRet' = Ret(o, fibers[f].id, "ok")
    /\ UNCHANGED <<config, processes, procs, nprocs, sweeper, scopeClosed, calls, readable, consumers, writer, stdin, stderr>>

\* A last step that frees the slot only once the exit of the process is known.
\* C25 must tell it from the removal that does not wait.
PoolRemove_WhenExited(f, o, pcRemove) ==
    /\ fibers[f].pc = pcRemove
    /\ processes' = IF procs[fibers[f].managed].exited
                    THEN HashMapRemove(processes, fibers[f].id)
                    ELSE processes
    /\ fibers' = [fibers EXCEPT ![f] = Idle]
    /\ lastRet' = Ret(o, fibers[f].id, "ok")
    /\ UNCHANGED <<config, procs, nprocs, sweeper, scopeClosed, calls, readable, consumers, writer, stdin, stderr>>

\* Last step of both: Ref.update(HashMap.remove(id)) and the return.
PoolRemove(f, o, pcRemove) ==
    /\ fibers[f].pc = pcRemove
    /\ processes' = HashMapRemove(processes, fibers[f].id)
    /\ fibers' = [fibers EXCEPT ![f] = Idle]
    /\ lastRet' = Ret(o, fibers[f].id, "ok")
    /\ UNCHANGED <<config, procs, nprocs, sweeper, scopeClosed, calls, readable, consumers, writer, stdin, stderr>>

Kill(f, i) == PoolLookup(f, i, "kill", "kill_signal")

\* yield* managed.kill()
KillSignal(f, delivered) ==
    /\ fibers[f].pc = "kill_signal"
    /\ delivered \/ Refusable(procs[fibers[f].managed])
    /\ procs' = [procs EXCEPT ![fibers[f].managed] = HandleKill(@, delivered)]
    /\ fibers' = [fibers EXCEPT ![f].pc = "kill_remove"]
    /\ lastRet' = NoRet
    /\ UNCHANGED <<config, processes, nprocs, sweeper, scopeClosed, calls, readable, consumers, writer, stdin, stderr>>

KillRemove(f) == PoolRemove(f, "kill", "kill_remove")

Interrupt(f, i) == PoolLookup(f, i, "interrupt", "interrupt_signal")

\* yield* managed.interrupt()
InterruptSignal(f, delivered) ==
    /\ fibers[f].pc = "interrupt_signal"
    /\ delivered \/ Refusable(procs[fibers[f].managed])
    /\ procs' = [procs EXCEPT ![fibers[f].managed] = HandleInterrupt(@, delivered)]
    /\ fibers' = [fibers EXCEPT ![f].pc = "interrupt_remove"]
    /\ lastRet' = NoRet
    /\ UNCHANGED <<config, processes, nprocs, sweeper, scopeClosed, calls, readable, consumers, writer, stdin, stderr>>

InterruptRemove(f) == PoolRemove(f, "interrupt", "interrupt_remove")

\* ---- killAll and the finalizer ---------------------------------------------
\* killAllProcesses, first step: Ref.get and Array.from(HashMap.values(current)).
KillAllStart(f) ==
    /\ calls < MaxCalls
    /\ calls' = calls + 1
    /\ fibers' = [fibers EXCEPT ![f] =
            [Idle EXCEPT !.pc = IF HashMapValues(processes) = <<>> THEN "killall_clear"
                                ELSE "killall_signal",
                         !.todo = HashMapValues(processes)]]
    /\ lastRet' = NoRet
    /\ UNCHANGED <<config, processes, procs, nprocs, sweeper, readable, consumers, writer, stdin, stderr>>

KillAll(f) ==
    /\ FreeCaller(f)
    /\ KillAllStart(f)
    /\ UNCHANGED scopeClosed

\* The finalizer registered by Effect.addFinalizer runs killAllProcesses when
\* the scope of the layer closes.
CloseScope ==
    /\ ~scopeClosed
    /\ scopeClosed' = TRUE
    /\ KillAllStart("finalizer")

\* A loop that gives up at the first termination that fails, and fails its
\* caller.  C12 must tell it from the loop of killAllProcesses.
KillAllSignal_StopsAtFailure(f, delivered) ==
    /\ fibers[f].pc = "killall_signal"
    /\ delivered \/ Refusable(procs[Head(fibers[f].todo)])
    /\ procs' = [procs EXCEPT ![Head(fibers[f].todo)] = HandleKill(@, delivered)]
    /\ IF delivered
       THEN /\ fibers' = [fibers EXCEPT ![f].todo = Tail(@),
                                ![f].pc = IF Tail(fibers[f].todo) = <<>> THEN "killall_clear"
                                          ELSE "killall_signal"]
            /\ lastRet' = NoRet
       ELSE /\ fibers' = [fibers EXCEPT ![f] = Idle]
            /\ lastRet' = Ret(IF f = "finalizer" THEN "finalizer" ELSE "killAll",
                              IdSeq[1], "ProcessPoolError")
    /\ UNCHANGED <<config, processes, nprocs, sweeper, scopeClosed, calls, readable, consumers, writer, stdin, stderr>>

\* A loop that passes over a handle without calling kill() on it.  C11 must
\* tell it from the loop of killAllProcesses.
KillAllSignal_Skips(f, delivered) ==
    /\ fibers[f].pc = "killall_signal"
    /\ delivered
    /\ fibers' = [fibers EXCEPT ![f].todo = Tail(@),
                                ![f].pc = IF Tail(fibers[f].todo) = <<>> THEN "killall_clear"
                                          ELSE "killall_signal"]
    /\ lastRet' = NoRet
    /\ UNCHANGED <<config, processes, procs, nprocs, sweeper, scopeClosed, calls, readable, consumers, writer, stdin, stderr>>

\* killAllProcesses, the loop: yield* managed.kill() for the next handle of
\* the snapshot.
KillAllSignal(f, delivered) ==
    /\ fibers[f].pc = "killall_signal"
    /\ delivered \/ Refusable(procs[Head(fibers[f].todo)])
    /\ procs' = [procs EXCEPT ![Head(fibers[f].todo)] = HandleKill(@, delivered)]
    /\ fibers' = [fibers EXCEPT ![f].todo = Tail(@),
                                ![f].pc = IF Tail(fibers[f].todo) = <<>> THEN "killall_clear"
                                          ELSE "killall_signal"]
    /\ lastRet' = NoRet
    /\ UNCHANGED <<config, processes, nprocs, sweeper, scopeClosed, calls, readable, consumers, writer, stdin, stderr>>

\* killAllProcesses, last step: Ref.set(processes, HashMap.empty()).
KillAllClear(f) ==
    /\ fibers[f].pc = "killall_clear"
    /\ processes' = EmptyMap
    /\ fibers' = [fibers EXCEPT ![f] = Idle]
    /\ lastRet' = Ret(IF f = "finalizer" THEN "finalizer" ELSE "killAll", IdSeq[1], "ok")
    /\ UNCHANGED <<config, procs, nprocs, sweeper, scopeClosed, calls, readable, consumers, writer, stdin, stderr>>

\* ---- the health check ----------------------------------------------------------
\* A test that knows stopped only.  C15 must tell it from the test of
\* healthCheck.
IsDead_StoppedOnly(status) == status = "stopped"

IsDead(status) == status = "stopped" \/ status = "error"

\* The for loop of healthCheck from entry k of the snapshot on: it runs
\* until it meets an entry whose status is dead, and yields the removal.
RECURSIVE Scan(_, _)
Scan(snap, k) ==
    IF k > Len(IdSeq) THEN IdleSweeper
    ELSE IF snap[IdSeq[k]] # NoProc /\ IsDead(procs[snap[IdSeq[k]]].currentStatus)
         THEN [pc |-> "remove", snap |-> snap, idx |-> k]
         ELSE Scan(snap, k + 1)

\* A run of healthCheck starts: Ref.get and the loop up to the first removal.
\* The schedule wakes it from a timer, and node runs no timer while a 'spawn'
\* or 'error' event of a launch is still queued for the next tick.
SweeperTick ==
    /\ config.healthCheckInterval
    /\ sweeper.pc = "idle"
    /\ \A p \in Procs : ~procs[p].pendingSpawn /\ ~procs[p].pendingError
    /\ sweeper' = Scan(processes, 1)
    /\ lastRet' = NoRet
    /\ UNCHANGED <<config, processes, procs, nprocs, fibers, scopeClosed, calls, readable, consumers, writer, stdin, stderr>>

\* Ref.update(HashMap.remove(id)) of healthCheck, and the loop up to the next.
SweeperRemove ==
    /\ sweeper.pc = "remove"
    /\ processes' = HashMapRemove(processes, IdSeq[sweeper.idx])
    /\ sweeper' = Scan(sweeper.snap, sweeper.idx + 1)
    /\ lastRet' = NoRet
    /\ UNCHANGED <<config, procs, nprocs, fibers, scopeClosed, calls, readable, consumers, writer, stdin, stderr>>

\* ---- a caller uses a handle it was given -------------------------------------
ManagedKill(p, delivered) ==
    /\ calls < MaxCalls
    /\ calls' = calls + 1
    /\ p <= nprocs /\ procs[p].escaped
    /\ delivered \/ Refusable(procs[p])
    /\ procs' = [procs EXCEPT ![p] = HandleKill(@, delivered)]
    /\ lastRet' = [Ret("managed.kill", procs[p].id, "ok") EXCEPT !.value = p]
    /\ UNCHANGED <<config, processes, nprocs, fibers, sweeper, scopeClosed, readable, consumers, writer, stdin, stderr>>

ManagedInterrupt(p, delivered) ==
    /\ calls < MaxCalls
    /\ calls' = calls + 1
    /\ p <= nprocs /\ procs[p].escaped
    /\ delivered \/ Refusable(procs[p])
    /\ procs' = [procs EXCEPT ![p] = HandleInterrupt(@, delivered)]
    /\ lastRet' = [Ret("managed.interrupt", procs[p].id, "ok") EXCEPT !.value = p]
    /\ UNCHANGED <<config, processes, nprocs, fibers, sweeper, scopeClosed, readable, consumers, writer, stdin, stderr>>

Next ==
    \/ \E f \in Callers, i \in Ids, launched \in BOOLEAN : Spawn(f, i, launched)
    \/ \E f \in Callers : SpawnAwait(f)
    \/ \E f \in Callers : SpawnInsert(f)
    \/ \E p \in Procs : OnSpawn(p)
    \/ \E p \in Procs : OnError(p)
    \/ \E p \in Procs, code \in {None} \cup {Some(c) : c \in ExitCodes},
          signal \in {None, Some("SIGINT"), Some("SIGTERM")} : OnExit(p, code, signal)
    \/ \E i \in Ids : Get(i)
    \/ \E i \in Ids : Has(i)
    \/ Size
    \/ \E f \in Callers, i \in Ids : Kill(f, i)
    \/ \E f \in Callers, delivered \in BOOLEAN : KillSignal(f, delivered)
    \/ \E f \in Callers : KillRemove(f)
    \/ \E f \in Callers, i \in Ids : Interrupt(f, i)
    \/ \E f \in Callers, delivered \in BOOLEAN : InterruptSignal(f, delivered)
    \/ \E f \in Callers : InterruptRemove(f)
    \/ \E f \in Callers : KillAll(f)
    \/ CloseScope
    \/ \E f \in Fibers, delivered \in BOOLEAN : KillAllSignal(f, delivered)
    \/ \E f \in Fibers : KillAllClear(f)
    \/ SweeperTick
    \/ SweeperRemove
    \/ \E p \in Procs, delivered \in BOOLEAN : ManagedKill(p, delivered)
    \/ \E p \in Procs, delivered \in BOOLEAN : ManagedInterrupt(p, delivered)

Spec == Init /\ [][Next]_vars

\* What goes on without a caller: a fiber that has started runs on, queued
\* ChildProcess events are delivered, and the health check keeps its schedule.
\* Nothing makes a process exit, and nothing makes a caller call.
FiberStep(f) ==
    \/ SpawnAwait(f) \/ SpawnInsert(f)
    \/ KillRemove(f) \/ InterruptRemove(f) \/ KillAllClear(f)
    \/ \E delivered \in BOOLEAN :
          KillSignal(f, delivered) \/ InterruptSignal(f, delivered) \/ KillAllSignal(f, delivered)
QueuedEvent(p) == OnSpawn(p) \/ OnError(p)
SweeperStep == SweeperTick \/ SweeperRemove

FairSpec ==
    /\ Spec
    /\ \A f \in Fibers : WF_vars(FiberStep(f))
    /\ \A p \in Procs : WF_vars(QueuedEvent(p))
    /\ WF_vars(SweeperStep)

\* ---- managed.stdout: createReadableStream ----------------------------------
poolVars == <<config, processes, procs, nprocs, fibers, sweeper, scopeClosed, calls, lastRet>>

\* readable.on(e, l) for the three listeners of consumer k; the first 'data'
\* listener switches a paused Readable to flowing.
On(r, k) == [r EXCEPT !.listeners = [e \in Events |-> @[e] \cup {k}], !.flowing = TRUE]
\* readable.off(e, l) for the three listeners of consumer k.
Off(r, k) == [r EXCEPT !.listeners = [e \in Events |-> @[e] \ {k}]]

\* emit.*: offer to the buffer of the run; a buffer that was shut down takes
\* nothing.
Emit(c, item) == IF c.pc = "done" THEN c ELSE [c EXCEPT !.queue = Append(@, item)]

\* The register effect up to its yield*: the three readable.on calls.
AttachListeners(k) ==
    /\ consumers[k].pc = "idle"
    /\ \A j \in 1..Len(ConsumerSeq) :
          ConsumerSeq[j] = k => \A h \in 1..(j - 1) : consumers[ConsumerSeq[h]].pc # "idle"
    /\ readable' = On(readable, k)
    /\ consumers' = [consumers EXCEPT ![k].pc = "attached"]
    /\ UNCHANGED <<poolVars, writer, stdin, stderr>>

\* yield* Effect.addFinalizer(...): the release of the listeners is now part
\* of the scope of the run.
AddFinalizer(k) ==
    /\ consumers[k].pc = "attached"
    /\ consumers' = [consumers EXCEPT ![k].pc = "running", ![k].finalizer = TRUE]
    /\ UNCHANGED <<poolVars, readable, writer, stdin, stderr>>

\* The scope of run k closes: its finalizer, if it was added, runs.
CloseRun(r, k) == IF consumers[k].finalizer THEN Off(r, k) ELSE r

\* 'data' handed to a single listener, as a queue shared by the consumers would.
OnData_SharedQueue(n) ==
    /\ readable.flowing /\ ~readable.ended /\ ~readable.errored
    /\ readable.emitted < MaxChunks
    /\ n \in 1..Len(readable.out)
    /\ readable' = [readable EXCEPT !.emitted = @ + 1,
                                    !.out = SubSeq(@, n + 1, Len(@))]
    /\ consumers' = [k \in Consumers |->
            IF /\ k \in readable.listeners["data"]
               /\ \A j \in 1..Len(ConsumerSeq) : ConsumerSeq[j] = k =>
                     \A h \in 1..(j - 1) : ConsumerSeq[h] \notin readable.listeners["data"]
            THEN Emit(consumers[k], Single(readable.emitted + 1,
                                           ToStringUtf8(SubSeq(readable.out, 1, n))))
            ELSE consumers[k]]
    /\ UNCHANGED <<poolVars, writer, stdin, stderr>>

\* The process writes a byte to its stdout.
StdoutWrite(b) ==
    /\ ~readable.ended /\ ~readable.errored
    /\ readable.emitted < MaxChunks
    /\ Len(readable.out) < MaxBytes
    /\ readable' = [readable EXCEPT !.out = Append(@, b)]
    /\ UNCHANGED <<poolVars, consumers, writer, stdin, stderr>>

\* 'data': the Readable hands out the first n bytes of what it holds as one
\* chunk, and every listener attached at the emission is called with it.
OnData(n) ==
    /\ readable.flowing /\ ~readable.ended /\ ~readable.errored
    /\ readable.emitted < MaxChunks
    /\ n \in 1..Len(readable.out)
    /\ readable' = [readable EXCEPT !.emitted = @ + 1,
                                    !.out = SubSeq(@, n + 1, Len(@))]
    /\ consumers' = [k \in Consumers |->
            IF k \in readable.listeners["data"]
            THEN Emit(consumers[k], Single(readable.emitted + 1,
                                           ToStringUtf8(SubSeq(readable.out, 1, n))))
            ELSE consumers[k]]
    /\ UNCHANGED <<poolVars, writer, stdin, stderr>>

\* 'end': emitted once, when a flowing Readable has handed out all its data.
OnEnd ==
    /\ readable.flowing /\ ~readable.ended /\ ~readable.errored
    /\ readable.out = <<>>
    /\ readable' = [readable EXCEPT !.ended = TRUE]
    /\ consumers' = [k \in Consumers |->
            IF k \in readable.listeners["end"] THEN Emit(consumers[k], End)
            ELSE consumers[k]]
    /\ UNCHANGED <<poolVars, writer, stdin, stderr>>

\* An 'error' that reaches every run in progress, whatever it listens to.
\* C32 must tell it from the emission to the listeners of the Readable.
OnStreamError_Broadcast ==
    /\ ~readable.ended /\ ~readable.errored
    /\ readable.listeners["error"] # {}
    /\ readable' = [readable EXCEPT !.errored = TRUE]
    /\ consumers' = [k \in Consumers |->
            IF consumers[k].pc \in {"attached", "running"} THEN Emit(consumers[k], Fail)
            ELSE consumers[k]]
    /\ UNCHANGED <<poolVars, writer, stdin, stderr>>

\* 'error' on the Readable, with at least one listener to take it.
OnStreamError ==
    /\ ~readable.ended /\ ~readable.errored
    /\ readable.listeners["error"] # {}
    /\ readable' = [readable EXCEPT !.errored = TRUE]
    /\ consumers' = [k \in Consumers |->
            IF k \in readable.listeners["error"] THEN Emit(consumers[k], Fail)
            ELSE consumers[k]]
    /\ UNCHANGED <<poolVars, writer, stdin, stderr>>

\* The process exits while nobody has read its stdout: node resumes the
\* Readable, which from then on drops what it emits.
FlushStdio ==
    /\ ~readable.flowing
    /\ readable' = [readable EXCEPT !.flowing = TRUE]
    /\ UNCHANGED <<poolVars, consumers, writer, stdin, stderr>>

\* A run that treats a failure in its buffer as the end of the stream.
Pull_FailAsEnd(k) ==
    /\ consumers[k].pc = "running"
    /\ consumers[k].queue # <<>>
    /\ LET item == Head(consumers[k].queue) IN
       IF item.tag = "single"
       THEN /\ consumers' = [consumers EXCEPT ![k].queue = Tail(@),
                                               ![k].got = Append(@, item.chunk),
                                               ![k].collected = Append(@, item.text)]
            /\ UNCHANGED <<readable, stderr>>
       ELSE /\ consumers' = [consumers EXCEPT ![k].pc = "done", ![k].queue = <<>>,
                                               ![k].result = "done"]
            /\ readable' = CloseRun(readable, k)
            /\ stderr' = CloseRun(stderr, k)
    /\ UNCHANGED <<poolVars, writer, stdin>>

\* The run takes the head of its buffer: a chunk goes downstream, end
\* completes the run, a failure fails it; the scope closes in both cases.
Pull(k) ==
    /\ consumers[k].pc = "running"
    /\ consumers[k].queue # <<>>
    /\ LET item == Head(consumers[k].queue) IN
       IF item.tag = "single"
       THEN /\ consumers' = [consumers EXCEPT ![k].queue = Tail(@),
                                               ![k].got = Append(@, item.chunk),
                                               ![k].collected = Append(@, item.text)]
            /\ UNCHANGED <<readable, stderr>>
       ELSE /\ consumers' = [consumers EXCEPT ![k].pc = "done", ![k].queue = <<>>,
                    ![k].result = IF item.tag = "end" THEN "done" ELSE "ProcessPoolError"]
            /\ readable' = CloseRun(readable, k)
            /\ stderr' = CloseRun(stderr, k)
    /\ UNCHANGED <<poolVars, writer, stdin>>

\* The fiber of the run is interrupted (cancellation, Effect.timeout): the
\* scope closes with what has been added to it so far.
Cancel(k) ==
    /\ consumers[k].pc \in {"attached", "running"}
    /\ consumers' = [consumers EXCEPT ![k].pc = "done", ![k].queue = <<>>,
                                      ![k].result = "interrupted"]
    /\ readable' = CloseRun(readable, k)
    /\ stderr' = CloseRun(stderr, k)
    /\ UNCHANGED <<poolVars, writer, stdin>>

StreamNext ==
    \/ \E k \in Consumers : AttachListeners(k)
    \/ \E k \in Consumers : AddFinalizer(k)
    \/ \E b \in Bytes : StdoutWrite(b)
    \/ \E n \in 1..MaxBytes : OnData(n)
    \/ OnEnd
    \/ OnStreamError
    \/ FlushStdio
    \/ \E k \in Consumers : Pull(k)
    \/ \E k \in Consumers : Cancel(k)

StreamSpec == Init /\ [][StreamNext]_vars

\* ---- managed.write(data) ---------------------------------------------------------
\* !self.childProcess.stdin: spawn always asks for pipes, and node creates the
\* stdin stream even when the launch fails.
NoStdin(pr) == FALSE
\* The guard "Cannot write to dead process".
DeadForWrite(pr) == pr.killed \/ ~pr.pid

\* A write that asks only for a pid and lets a signaled process be written
\* to.  C21 must tell it from the guard of write.
Write_IgnoresKilled(p, data) ==
    /\ calls < MaxCalls
    /\ calls' = calls + 1
    /\ writer.pc = "idle"
    /\ p <= nprocs /\ procs[p].escaped
    /\ IF NoStdin(procs[p]) \/ ~procs[p].pid
       THEN /\ lastRet' = [Ret("write", procs[p].id, "ProcessPoolError") EXCEPT !.value = p]
            /\ UNCHANGED writer
       ELSE /\ lastRet' = NoRet
            /\ writer' = [IdleWriter EXCEPT !.pc = "write", !.managed = p, !.data = data]
    /\ UNCHANGED <<config, processes, procs, nprocs, fibers, sweeper, scopeClosed,
                   readable, consumers, stdin, stderr>>

\* write(data) on a handle a caller holds, up to its first yield*: the two
\* guards.
Write(p, data) ==
    /\ calls < MaxCalls
    /\ calls' = calls + 1
    /\ writer.pc = "idle"
    /\ p <= nprocs /\ procs[p].escaped
    /\ IF NoStdin(procs[p]) \/ DeadForWrite(procs[p])
       THEN /\ lastRet' = [Ret("write", procs[p].id, "ProcessPoolError") EXCEPT !.value = p]
            /\ UNCHANGED writer
       ELSE /\ lastRet' = NoRet
            /\ writer' = [IdleWriter EXCEPT !.pc = "write", !.managed = p, !.data = data]
    /\ UNCHANGED <<config, processes, procs, nprocs, fibers, sweeper, scopeClosed,
                   readable, consumers, stdin, stderr>>

\* The Effect.async: stdin.write(data, callback).  node destroys stdin when
\* the process exits, so a write after the exit cannot be taken; before the
\* exit the OS takes the bytes or reports an error (a broken pipe).
WriteCall(taken) ==
    /\ writer.pc = "write"
    /\ taken => ~procs[writer.managed].exited
    /\ writer' = [writer EXCEPT !.pc = "callback", !.err = ~taken]
    /\ stdin' = IF taken
                THEN [stdin EXCEPT ![writer.managed] = @ \o Utf8Encode(writer.data)]
                ELSE stdin
    /\ lastRet' = NoRet
    /\ UNCHANGED <<config, processes, procs, nprocs, fibers, sweeper, scopeClosed, calls,
                   readable, consumers, stderr>>

\* The callback of stdin.write resumes the fiber: an error becomes a
\* ProcessPoolError, no error the result of write.
WriteResume ==
    /\ writer.pc = "callback"
    /\ writer' = IdleWriter
    /\ lastRet' = [Ret("write", procs[writer.managed].id,
                       IF writer.err THEN "ProcessPoolError" ELSE "ok")
                      EXCEPT !.value = writer.managed]
    /\ UNCHANGED <<config, processes, procs, nprocs, fibers, sweeper, scopeClosed, calls,
                   readable, consumers, stdin, stderr>>

\* Callers that spawn processes, signal them through their handles and write
\* to them.
WriteNext ==
    \/ \E f \in Callers, i \in Ids, launched \in BOOLEAN : Spawn(f, i, launched)
    \/ \E f \in Callers : SpawnAwait(f)
    \/ \E f \in Callers : SpawnInsert(f)
    \/ \E p \in Procs : OnSpawn(p)
    \/ \E p \in Procs : OnError(p)
    \/ \E p \in Procs, code \in {None} \cup {Some(c) : c \in ExitCodes},
          signal \in {None, Some("SIGINT"), Some("SIGTERM")} : OnExit(p, code, signal)
    \/ \E p \in Procs, delivered \in BOOLEAN : ManagedKill(p, delivered)
    \/ \E p \in Procs, delivered \in BOOLEAN : ManagedInterrupt(p, delivered)
    \/ \E p \in Procs, data \in Texts : Write(p, data)
    \/ \E taken \in BOOLEAN : WriteCall(taken)
    \/ WriteResume

WriteSpec == Init /\ [][WriteNext]_vars

\* ---- write and stdout of a pass-through process -----------------------------------
\* The process whose stdout is readable: the first one created.
StreamProc == 1

\* The process (cat) reads n bytes from its stdin and writes them to its
\* stdout.
Cat(n) ==
    /\ StreamProc <= nprocs /\ procs[StreamProc].pid /\ ~procs[StreamProc].exited
    /\ ~readable.ended /\ ~readable.errored
    /\ n \in 1..Len(stdin[StreamProc])
    /\ stdin' = [stdin EXCEPT ![StreamProc] = SubSeq(@, n + 1, Len(@))]
    /\ readable' = [readable EXCEPT !.out = @ \o SubSeq(stdin[StreamProc], 1, n)]
    /\ UNCHANGED <<poolVars, consumers, writer, stderr>>

\* The pool after h = spawn('a', {command: 'cat'}) has returned and the
\* 'spawn' event of the child has been delivered.
AfterSpawn ==
    /\ config = [maxConcurrent |-> 1, healthCheckInterval |-> FALSE]
    /\ processes = HashMapSet(EmptyMap, IdSeq[1], StreamProc)
    /\ procs = [p \in Procs |->
            IF p = StreamProc
            THEN [NewManaged(IdSeq[1], TRUE) EXCEPT !.pendingSpawn = FALSE,
                                                    !.exitObserver = TRUE, !.escaped = TRUE]
            ELSE Unborn]
    /\ nprocs = 1
    /\ fibers = [f \in Fibers |-> Idle]
    /\ sweeper = IdleSweeper
    /\ scopeClosed = FALSE
    /\ calls = 1
    /\ lastRet = NoRet
    /\ readable = NewReadable
    /\ consumers = [k \in Consumers |-> NewConsumer]
    /\ writer = IdleWriter
    /\ stdin = [p \in Procs |-> <<>>]
    /\ stderr = NewReadable

\* One consumer of h.stdout and a caller that writes to h, while cat runs.
RoundTripNext ==
    \/ AttachListeners(ConsumerSeq[1])
    \/ AddFinalizer(ConsumerSeq[1])
    \/ \E data \in Texts : Write(StreamProc, data)
    \/ \E taken \in BOOLEAN : WriteCall(taken)
    \/ WriteResume
    \/ \E n \in 1..(2 * MaxBytes) : Cat(n)
    \/ \E n \in 1..(2 * MaxBytes) : OnData(n)
    \/ Pull(ConsumerSeq[1])

RoundTripSpec == AfterSpawn /\ [][RoundTripNext]_vars

\* ---- managed.stderr, next to managed.stdout and the handle ---------------------------
\* The register effect of a run of managed.stderr up to its yield*: the same
\* createReadableStream, on childProcess.stderr.
AttachStderr(k) ==
    /\ consumers[k].pc = "idle"
    /\ \A j \in 1..Len(ConsumerSeq) :
          ConsumerSeq[j] = k => \A h \in 1..(j - 1) : consumers[ConsumerSeq[h]].pc # "idle"
    /\ stderr' = On(stderr, k)
    /\ consumers' = [consumers EXCEPT ![k].pc = "attached"]
    /\ UNCHANGED <<poolVars, readable, writer, stdin>>

\* 'end' of stderr, which carries no data here.
OnStderrEnd ==
    /\ stderr.flowing /\ ~stderr.ended /\ ~stderr.errored
    /\ stderr' = [stderr EXCEPT !.ended = TRUE]
    /\ consumers' = [k \in Consumers |->
            IF k \in stderr.listeners["end"] THEN Emit(consumers[k], End)
            ELSE consumers[k]]
    /\ UNCHANGED <<poolVars, readable, writer, stdin>>

\* 'error' on stderr, with at least one listener to take it.
OnStderrError ==
    /\ ~stderr.ended /\ ~stderr.errored
    /\ stderr.listeners["error"] # {}
    /\ stderr' = [stderr EXCEPT !.errored = TRUE]
    /\ consumers' = [k \in Consumers |->
            IF k \in stderr.listeners["error"] THEN Emit(consumers[k], Fail)
            ELSE consumers[k]]
    /\ UNCHANGED <<poolVars, readable, writer, stdin>>

\* A registered process whose two streams are consumed while it is signaled
\* through its handle and exits.
HandleStreamsNext ==
    \/ \E k \in Consumers : AttachListeners(k)
    \/ \E k \in Consumers : AttachStderr(k)
    \/ \E k \in Consumers : AddFinalizer(k)
    \/ StdoutWrite("61")
    \/ \E n \in 1..MaxBytes : OnData(n)
    \/ OnEnd
    \/ OnStreamError
    \/ OnStderrEnd
    \/ OnStderrError
    \/ \E k \in Consumers : Pull(k)
    \/ \E k \in Consumers : Cancel(k)
    \/ \E p \in Procs, delivered \in BOOLEAN : ManagedKill(p, delivered)
    \/ \E p \in Procs, code \in {None} \cup {Some(c) : c \in ExitCodes},
          signal \in {None, Some("SIGINT"), Some("SIGTERM")} : OnExit(p, code, signal)

HandleStreamsSpec == AfterSpawn /\ [][HandleStreamsNext]_vars

\* ==== the claims ========================================================
Registered(p) == \E i \in Ids : processes[i] = p
PoolSignalOps == {"kill", "interrupt"}
ManagedOps == {"managed.kill", "managed.interrupt"}

\* C1: in every reachable state the registry holds at most maxConcurrent
\* entries.
C1_RegistryWithinLimit == HashMapSize(processes) <= config.maxConcurrent

\* C2: a spawn that reads a registry of size >= maxConcurrent is not admitted
\* and creates no process; a spawn that fails with ProcessLimitError carries
\* maxConcurrent and the size it read, and leaves registry and processes as
\* they were.
C2_SpawnAtCapacityRejected ==
    [][/\ HashMapSize(processes) >= config.maxConcurrent =>
            /\ nprocs' = nprocs
            /\ \A f \in Callers : fibers'[f].pc = "spawn_await" => fibers[f].pc = "spawn_await"
            /\ (lastRet'.op = "spawn" /\ calls' = calls + 1) =>
                    lastRet'.tag = "ProcessLimitError"
       /\ lastRet'.tag = "ProcessLimitError" =>
            /\ lastRet'.op = "spawn"
            /\ lastRet'.maxConcurrent = config.maxConcurrent
            /\ lastRet'.currentCount = HashMapSize(processes)
            /\ lastRet'.currentCount >= config.maxConcurrent
            /\ processes' = processes /\ procs' = procs /\ nprocs' = nprocs
      ]_vars
\* A spawn was just rejected by a pool that holds a process.
C2_Witness ==
    /\ lastRet.tag = "ProcessLimitError"
    /\ HashMapSize(processes) >= 1

\* C3: get, pool.kill and pool.interrupt on an id that is not registered fail
\* with ProcessNotFoundError carrying the id, signal nothing and leave the
\* registry as it was.
C3_UnknownIdNotFound ==
    [][/\ \A i \in Ids : ~HashMapHas(processes, i) =>
            /\ GetResult(processes, i).tag = "ProcessNotFoundError"
            /\ GetResult(processes, i).id = i
            /\ \A f \in Callers :
                 (fibers[f].pc = "idle" /\ fibers'[f].pc \in {"kill_signal", "interrupt_signal"})
                    => fibers'[f].id # i
            /\ (lastRet'.op \in PoolSignalOps /\ lastRet'.id = i /\ calls' = calls + 1) =>
                    lastRet'.tag = "ProcessNotFoundError"
       /\ lastRet'.tag = "ProcessNotFoundError" =>
            /\ lastRet'.op \in PoolSignalOps
            /\ ~HashMapHas(processes, lastRet'.id)
            /\ processes' = processes /\ procs' = procs
      ]_vars
\* pool.kill just failed on the id of a process that was registered before.
C3_Witness ==
    /\ lastRet.tag = "ProcessNotFoundError"
    /\ lastRet.op = "kill"
    /\ \E p \in Procs : p <= nprocs /\ procs[p].escaped /\ procs[p].id = lastRet.id

\* C4: at the moment pool.kill(id) or pool.interrupt(id) returns successfully,
\* has(id) is false.
C4_RemovedWhenKillReturns ==
    (lastRet.op \in PoolSignalOps /\ lastRet.tag = "ok") => ~HasResult(processes, lastRet.id)
\* pool.kill returned while the signaled process has not exited yet.
C4_Witness ==
    /\ lastRet.op = "kill" /\ lastRet.tag = "ok"
    /\ \E p \in Procs : /\ p <= nprocs /\ procs[p].id = lastRet.id
                        /\ procs[p].signals = <<"SIGTERM">> /\ ~procs[p].exited

\* C5: no reader sees an id registered once pool.kill/pool.interrupt has
\* issued the signal to its process.
C5_SignalAndRemovalAtomic ==
    \A f \in Callers :
        (/\ fibers[f].pc \in {"kill_remove", "interrupt_remove"}
         /\ procs[fibers[f].managed].signals # <<>>)
            => ~HasResult(processes, fibers[f].id)

\* C6: a successful pool.kill/pool.interrupt leaves the id unregistered, only
\* a spawn of that id registers it again, and a pool.kill/pool.interrupt that
\* finds the id unregistered fails with ProcessNotFoundError.
C6_SecondKillNotFound ==
    [][/\ (lastRet'.op \in PoolSignalOps /\ lastRet'.tag = "ok") =>
            Lookup(processes', lastRet'.id) = None
       /\ \A i \in Ids : (~HashMapHas(processes, i) /\ HashMapHas(processes', i)) =>
            \E f \in Callers : /\ fibers[f].pc = "spawn_insert" /\ fibers[f].id = i
                               /\ fibers'[f].pc = "idle"
       /\ \A i \in Ids :
            (/\ Lookup(processes, i) = None
             /\ lastRet'.op \in PoolSignalOps /\ lastRet'.id = i /\ calls' = calls + 1)
                => lastRet'.tag = "ProcessNotFoundError"
      ]_vars
\* spawn, pool.interrupt, pool.interrupt: the second one just failed.
C6_Witness ==
    /\ lastRet = NotFound("interrupt", lastRet.id)
    /\ calls = 3 /\ nprocs = 1
    /\ procs[1].id = lastRet.id
    /\ procs[1].signals = <<"SIGINT">> /\ ~procs[1].exited

\* C7: a registered process that has exited is eventually not registered,
\* with no further call.
C7_ExitedEventuallyRemoved ==
    \A p \in Procs : (procs[p].exited /\ Registered(p)) ~> ~Registered(p)

\* C8: the exit notification sets the status to stopped when a signal ended
\* the process or the exit code is zero, and to error otherwise; an error
\* event sets it to error.
C8_StatusOnExit ==
    [][\A p \in Procs :
         /\ (~procs[p].exited /\ procs'[p].exited) =>
                procs'[p].currentStatus =
                    IF procs'[p].signalCode # None \/ procs'[p].exitCode = Some(0)
                    THEN "stopped" ELSE "error"
         /\ (procs[p].pendingError /\ ~procs'[p].pendingError) =>
                procs'[p].currentStatus = "error"
      ]_vars
\* A process was ended by a signal and is stopped.
C8_Witness ==
    \E p \in Procs : /\ procs[p].exited /\ procs[p].signalCode # None
                     /\ procs[p].currentStatus = "stopped"

\* C9: once the status of a handle is stopped or error it never changes.
C9_TerminalStatus ==
    [][\A p \in Procs :
         (p <= nprocs /\ IsDead(procs[p].currentStatus)) =>
            procs'[p].currentStatus = procs[p].currentStatus
      ]_vars

\* C10: kill() and interrupt() on a handle whose process has exited or was
\* already signaled succeed, signal nothing and leave the status as it was.
C10_HandleSignalNoOp ==
    [][\A p \in Procs :
         (/\ lastRet'.op \in ManagedOps /\ lastRet'.value = p
          /\ (procs[p].exited \/ procs[p].killed)) =>
            /\ lastRet'.tag = "ok"
            /\ procs'[p].signals = procs[p].signals
            /\ procs'[p].currentStatus = procs[p].currentStatus
      ]_vars

\* Processes of a sequence of handles.
Range(seq) == {seq[k] : k \in 1..Len(seq)}
\* Fiber f takes its step of the killAllProcesses loop.
LoopStep(f) == fibers[f].pc = "killall_signal" /\ fibers'[f] # fibers[f]
\* Fiber f starts killAllProcesses.
LoopStart(f) == fibers[f].pc = "idle" /\ fibers'[f].pc \in {"killall_signal", "killall_clear"}

Refused(p) ==
    /\ Refusable(procs[p])
    /\ procs'[p].currentStatus = "error" /\ procs'[p].signals = procs[p].signals

\* C12: killAll and the finalizer always end with success and a cleared
\* registry, and a termination that failed does not end the loop: the handles
\* still to come stay on its list.
C12_KillAllNeverFails ==
    [][/\ lastRet'.op \in {"killAll", "finalizer"} =>
            lastRet'.tag = "ok" /\ processes' = EmptyMap
       /\ \A f \in Fibers :
            /\ (LoopStep(f) /\ Refused(Head(fibers[f].todo))) =>
                    /\ fibers'[f].todo = Tail(fibers[f].todo)
                    /\ fibers'[f].pc = IF fibers'[f].todo = <<>> THEN "killall_clear"
                                       ELSE "killall_signal"
            /\ (fibers[f].pc \in {"killall_signal", "killall_clear"} /\ fibers'[f].pc = "idle") =>
                    /\ fibers[f].todo = <<>>
                    /\ lastRet'.op \in {"killAll", "finalizer"}
      ]_vars
\* killAll has just returned; the signal of the first process was refused and
\* the second one was signaled all the same.
C12_Witness ==
    /\ lastRet.op = "killAll" /\ lastRet.tag = "ok" /\ nprocs = 2
    /\ procs[1].id = IdSeq[1] /\ procs[2].id = IdSeq[2]
    /\ procs[1].currentStatus = "error" /\ procs[1].signals = <<>> /\ ~procs[1].exited
    /\ procs[2].signals = <<"SIGTERM">>

\* C13: the finalizer takes every registered process, leaves each of them
\* with a SIGTERM sent (unless it has exited already or the OS refuses the
\* signal), whatever was done through its handle before, and clears the
\* registry.
C13_FinalizerTerminatesAll ==
    [][/\ LoopStart("finalizer") =>
            \A i \in Ids : HashMapHas(processes, i) =>
                processes[i] \in Range(fibers'["finalizer"].todo)
       /\ LoopStep("finalizer") =>
            LET p == Head(fibers["finalizer"].todo) IN
            \/ "SIGTERM" \in Range(procs'[p].signals)
            \/ procs'[p].exited
            \/ Refused(p)
       /\ lastRet'.op = "finalizer" => processes' = EmptyMap
      ]_vars

\* C14: a spawn returns its handle only for a process with a pid, which it
\* has registered; a spawn that waits for the outcome of a launch has that
\* outcome still to come; when the launch failure is reported the waiting
\* spawn fails with ProcessPoolError, the registry stays as it was and no
\* exit observer is attached; a process without pid is never registered.
C14_SpawnAwaitsLaunch ==
    [][/\ (lastRet'.op = "spawn" /\ lastRet'.tag = "ok") =>
            /\ procs'[lastRet'.value].pid
            /\ Lookup(processes', lastRet'.id) = Some(lastRet'.value)
       /\ \A f \in Callers :
            fibers'[f].pc = "spawn_suspended" => procs'[fibers'[f].managed].pendingError
       /\ \A p \in Procs :
            /\ (p <= nprocs /\ procs[p].pendingError /\ ~procs'[p].pendingError
                           /\ procs[p].awaitedBy # None) =>
                    /\ lastRet' = Ret("spawn", procs[p].id, "ProcessPoolError")
                    /\ fibers'[procs[p].awaitedBy[1]].pc = "idle"
                    /\ processes' = processes
                    /\ ~procs'[p].exitObserver
            /\ (\E i \in Ids : processes'[i] = p) => procs'[p].pid
      ]_vars

\* Entry k of the snapshot snap holds a process that is stopped or in error.
DeadEntry(snap, k) ==
    /\ snap[IdSeq[k]] # NoProc
    /\ procs[snap[IdSeq[k]]].currentStatus \in {"stopped", "error"}
\* The loop of healthCheck, having examined the entries after k0 of snap, has
\* stopped at the first of them that is dead, for its removal.
StopsAtFirstDead(snap, k0) ==
    \A k \in (k0 + 1)..Len(IdSeq) :
        DeadEntry(snap, k) =>
            /\ sweeper'.pc = "remove" /\ sweeper'.snap = snap
            /\ sweeper'.idx \in (k0 + 1)..k

C16_SweeperSparesTheLiving ==
    [][SweeperRemove =>
            LET i == IdSeq[sweeper.idx] IN
            HashMapHas(processes, i) =>
                procs[processes[i]].currentStatus \in {"stopped", "error"}
      ]_vars

\* The scope of the pool has closed: its finalizer has run to the end.
ScopeEnded == scopeClosed /\ fibers["finalizer"].pc = "idle"

\* C17: once the scope of the pool has ended, no run of the health check
\* starts.
C17_SweeperStopsWithScope ==
    [][ScopeEnded => ~SweeperTick]_vars

\* ---- claims about managed.stdout (StreamSpec) ------------------------------
Active(k) == consumers[k].pc \in {"attached", "running"}
Buffered(k) == SelectSeq(consumers[k].queue, LAMBDA item : item.tag = "single")
\* The chunks run k has observed: handed downstream or still in its buffer.
Seen(k) == consumers[k].got \o [j \in 1..Len(Buffered(k)) |-> Buffered(k)[j].chunk]

\* C18: every consumer that is running when the process emits a chunk
\* observes that chunk, whatever the other consumers do (fan-out): an emission
\* appends the chunk to what each running consumer has observed, no other
\* step changes what a running consumer has observed, and a consumer that
\* completes has handed on everything it observed, in emission order.
C18_FanOut ==
    [][\A k \in Consumers :
          /\ (Active(k) /\ Active(k)') =>
                Seen(k)' = IF readable'.emitted # readable.emitted
                           THEN Append(Seen(k), readable'.emitted)
                           ELSE Seen(k)
          /\ (consumers[k].result = "none" /\ consumers'[k].result = "done") =>
                consumers'[k].got = Seen(k)
          /\ \A j \in 1..(Len(Seen(k)) - 1) : Seen(k)[j + 1] = Seen(k)[j] + 1]_vars
C18_Witness ==
    \A k \in Consumers :
        consumers[k].result = "done" /\ consumers[k].got = [j \in 1..MaxChunks |-> j]

\* C19: the listeners attached to the channel are at all times exactly the
\* data, end and error listeners of the consumptions that are still active: a
\* consumption that has ended, on whatever path, has left none behind, and an
\* active one has lost none.
C19_ListenersOfActiveRuns ==
    \A k \in Consumers, e \in Events : (k \in readable.listeners[e]) <=> Active(k)

\* C20: when the channel reports end-of-stream, every active consumption is
\* told so and ends normally once it has taken what came before; when the
\* channel reports an error, it is told so and fails with a ProcessPoolError;
\* a consumption that has ended hands on no further chunk and keeps its
\* result.
C20_EndAndError ==
    [][\A k \in Consumers :
          /\ (Active(k) /\ ~readable.ended /\ readable'.ended) =>
                consumers'[k].queue = Append(consumers[k].queue, End)
          /\ (Active(k) /\ ~readable.errored /\ readable'.errored) =>
                consumers'[k].queue = Append(consumers[k].queue, Fail)
          /\ (/\ consumers[k].pc = "running" /\ consumers[k].queue # <<>>
              /\ consumers'[k].got = consumers[k].got
              /\ consumers'[k].pc # consumers[k].pc
              /\ consumers'[k].result # "interrupted") =>
                /\ Head(consumers[k].queue).tag # "single"
                /\ consumers'[k].result =
                      IF Head(consumers[k].queue) = End THEN "done" ELSE "ProcessPoolError"
          /\ (consumers[k].result = "none" /\ consumers'[k].result = "done") =>
                readable.ended
          /\ (consumers[k].result = "none" /\ consumers'[k].result = "ProcessPoolError") =>
                readable.errored
          /\ consumers[k].result # "none" => consumers'[k] = consumers[k]]_vars
C20_Witness ==
    \E k \in Consumers :
        /\ consumers[k].result = "ProcessPoolError"
        /\ consumers[k].got # <<>>
        /\ readable.errored

\* ---- claims C21..C30 -------------------------------------------------------------
\* Fiber f completes a spawn in this step.
SpawnReturns(f) == fibers[f].pc = "spawn_insert" /\ fibers'[f].pc = "idle"

\* C23: a spawn(id, spec) that succeeds under an id that is not registered
\* returns the handle it created, with that id; size() grows by exactly one,
\* has(id) is true and get(id) returns that handle; and get(id) goes on
\* returning that handle until the entry is removed (an entry is never
\* exchanged for another handle).
C23_SpawnRegistersHandle ==
    [][/\ \A f \in Callers :
             (SpawnReturns(f) /\ ~HasResult(processes, fibers[f].id)) =>
                /\ lastRet'.op = "spawn" /\ lastRet'.tag = "ok"
                /\ lastRet'.value = fibers[f].managed
                /\ procs'[lastRet'.value].id = fibers[f].id
                /\ SizeResult(processes') = SizeResult(processes) + 1
                /\ HasResult(processes', fibers[f].id)
                /\ GetResult(processes', fibers[f].id).value = lastRet'.value
       /\ \A i \in Ids :
             HasResult(processes, i) =>
                \/ ~HasResult(processes', i)
                \/ GetResult(processes', i) = GetResult(processes, i)]_vars

\* Spawns that have been admitted and have not yet returned.
SpawnsInFlight == {f \in Callers : fibers[f].pc \in {"spawn_await", "spawn_suspended", "spawn_insert"}}
\* The step is one of the four removals: the exit observer, the last step of
\* pool.kill / pool.interrupt, the sweeper, the clearing of killAll.
RemovalStep(i) ==
    \/ \E p \in Procs : procs[p].id = i /\ procs[p].exitObserver /\ ~procs[p].exited /\ procs'[p].exited
    \/ \E f \in Callers : fibers[f].pc \in {"kill_remove", "interrupt_remove"}
                            /\ fibers[f].id = i /\ fibers'[f].pc = "idle"
    \/ sweeper.pc = "remove" /\ IdSeq[sweeper.idx] = i /\ sweeper' # sweeper
    \/ \E f \in Fibers : fibers[f].pc = "killall_clear" /\ fibers'[f].pc = "idle"

\* C24: overlapping spawns under distinct ids that fit into the pool together
\* are all admitted, and none of their insertions is lost: a spawn called
\* while the registry and the spawns in flight leave room is not refused, the
\* insertion of one id leaves every other entry as it is and grows the size
\* by one, and an entry leaves the registry by a removal only.
C24_NoLostInsertion ==
    [][/\ (/\ lastRet'.op = "spawn" /\ lastRet'.tag = "ProcessLimitError"
           /\ calls' = calls + 1) =>
             HashMapSize(processes) + Cardinality(SpawnsInFlight) >= config.maxConcurrent
       /\ \A f \in Callers :
             (SpawnReturns(f) /\ ~HasResult(processes, fibers[f].id)) =>
                /\ \A j \in Ids \ {fibers[f].id} : processes'[j] = processes[j]
                /\ processes'[fibers[f].id] = fibers[f].managed
                /\ SizeResult(processes') = SizeResult(processes) + 1
       /\ \A i \in Ids :
             (HasResult(processes, i) /\ ~HasResult(processes', i)) => RemovalStep(i)]_vars
\* Two spawns overlap: the one that started first is about to insert, the
\* one that started second has inserted already, and both entries fit.
C24_Witness ==
    /\ fibers[CallerSeq[1]].pc = "spawn_insert"
    /\ \E i \in Ids \ {fibers[CallerSeq[1]].id} :
          /\ HasResult(processes, i)
          /\ lastRet = [Ret("spawn", i, "ok") EXCEPT !.value = processes[i]]
    /\ HashMapSize(processes) + 1 <= config.maxConcurrent

\* Fiber f returns from pool.kill or pool.interrupt in this step.
PoolSignalReturns(f) ==
    fibers[f].pc \in {"kill_remove", "interrupt_remove"} /\ fibers'[f].pc = "idle"

\* C25: pool.kill / pool.interrupt free the slot without waiting for the
\* exit: when the call returns, having found its entry in a registry that
\* was full (and not over-full), the registry has room again whether or not
\* the process has exited, and a spawn called after a successful pool.kill /
\* pool.interrupt into a registry with room is admitted.
C25_SlotFreedOptimistically ==
    [][/\ \A f \in Callers :
             (/\ PoolSignalReturns(f)
              /\ processes[fibers[f].id] = fibers[f].managed
              /\ HashMapSize(processes) = config.maxConcurrent) =>
                /\ lastRet'.tag = "ok"
                /\ ~AtCapacity(HashMapSize(processes'))
       /\ (/\ lastRet.op \in PoolSignalOps /\ lastRet.tag = "ok"
           /\ HashMapSize(processes) < config.maxConcurrent
           /\ lastRet'.op = "spawn" /\ calls' = calls + 1) =>
             lastRet'.tag # "ProcessLimitError"]_vars
\* A pool of one slot holds a new process while the process it interrupted
\* before is still alive.
C25_Witness ==
    /\ config.maxConcurrent = 1
    /\ \E p, q \in Procs :
          /\ p < q /\ q <= nprocs /\ procs[p].id # procs[q].id
          /\ procs[p].signals = <<"SIGINT">> /\ ~procs[p].exited /\ ~Registered(p)
          /\ Registered(q)
          /\ lastRet = [Ret("spawn", procs[q].id, "ok") EXCEPT !.value = q]

\* Nothing is in progress: no pool operation, no run of the health check, no
\* queued 'spawn' or 'error' event.
Quiet ==
    /\ \A f \in Fibers : fibers[f].pc = "idle"
    /\ sweeper.pc = "idle"
    /\ \A p \in Procs : ~procs[p].pendingSpawn /\ ~procs[p].pendingError
\* The process ended in error: it exited with a non-zero code, or its launch
\* failed.
Failed(p) ==
    /\ p <= nprocs
    /\ procs[p].currentStatus = "error"
    /\ procs[p].exited \/ ~procs[p].pid

\* C26: the failure of a process leaves the pool usable: with a failed
\* process around, a spawn called into a registry with room is admitted, and
\* once nothing is in progress the failed process holds no slot (in a pool
\* with a health check the next sweep may still be due, so the slot is
\* looked at in a pool without one).
C26_PoolSurvivesFailure ==
    [][/\ (/\ \E p \in Procs : Failed(p)
           /\ HashMapSize(processes) < config.maxConcurrent
           /\ lastRet'.op = "spawn" /\ calls' = calls + 1) =>
             lastRet'.tag # "ProcessLimitError"
       /\ (Quiet' /\ ~config.healthCheckInterval) =>
             \A p \in Procs : Failed(p)' => ~Registered(p)']_vars

\* The moves of the status that the state machine allows.
Forward ==
    {<<"starting", "running">>, <<"starting", "error">>,
     <<"running", "stopping">>, <<"running", "stopped">>, <<"running", "error">>,
     <<"stopping", "stopped">>, <<"stopping", "error">>}

\* C27: the status of a handle changes along starting -> running ->
\* stopping -> {stopped, error} only (running -> {stopped, error} and
\* starting -> error included), whatever the order of the 'spawn', 'exit'
\* and 'error' events and the kill() / interrupt() calls.
C27_StatusMovesForward ==
    [][\A p \in Procs :
          (p <= nprocs /\ procs'[p].currentStatus # procs[p].currentStatus) =>
             <<procs[p].currentStatus, procs'[p].currentStatus>> \in Forward]_vars

\* C28: a signal is issued to a process only while it is alive (it has a pid
\* and has not exited) and has not been signaled before, it is SIGINT or
\* SIGTERM, and the status is stopping with it; and the status is stopping
\* only for a process that has been sent a signal and has not exited.
C28_SignalOnlyTheLiving ==
    [][\A p \in Procs :
          /\ procs'[p].signals # procs[p].signals =>
                /\ procs[p].pid /\ ~procs[p].exited /\ procs[p].signals = <<>>
                /\ procs'[p].signals \in {<<"SIGINT">>, <<"SIGTERM">>}
                /\ procs'[p].currentStatus = "stopping"
          /\ procs'[p].currentStatus = "stopping" =>
                procs'[p].signals # <<>> /\ ~procs'[p].exited]_vars

\* One of the removal paths that work by id acts on process p in this step:
\* its exit observer, the last step of a pool.kill / pool.interrupt that
\* looked it up, or the sweeper that found it dead.
RemovalOf(p) ==
    \/ procs[p].exitObserver /\ ~procs[p].exited /\ procs'[p].exited
    \/ \E f \in Callers : PoolSignalReturns(f) /\ fibers[f].managed = p
    \/ sweeper.pc = "remove" /\ sweeper.snap[IdSeq[sweeper.idx]] = p /\ sweeper' # sweeper

\* C29: removal is idempotent per process: of the removals that act on one
\* process the first takes its entry out of the registry, and every later
\* one, the entry being gone, leaves the registry as it is; none raises an
\* error.
C29_RemovalIdempotent ==
    [][\A p \in Procs :
          (p <= nprocs /\ RemovalOf(p)) =>
             /\ processes' = IF processes[procs[p].id] = p
                             THEN HashMapRemove(processes, procs[p].id)
                             ELSE processes
             /\ lastRet'.tag \in {"ok", "none"}]_vars

\* Fiber f runs a pool.kill or pool.interrupt that has found its entry; from
\* there on the call signals, removes and returns ok.
PoolSignalFound(f) ==
    fibers[f].pc \in {"kill_signal", "kill_remove", "interrupt_signal", "interrupt_remove"}

\* C30: of the overlapping pool.kill(id) / pool.interrupt(id) calls on one
\* registered id exactly one succeeds and the others fail with
\* ProcessNotFoundError: a call that has found the entry goes on to return
\* ok, so no two calls in progress have both found the same entry.
C30_OneKillWins ==
    \A f, g \in Callers :
        (f # g /\ PoolSignalFound(f) /\ PoolSignalFound(g)) =>
            fibers[f].managed # fibers[g].managed

\* The step is the call of write on handle p.
WriteCalled(p) ==
    /\ writer.pc = "idle" /\ calls' = calls + 1
    /\ \/ writer'.pc = "write" /\ writer'.managed = p
       \/ lastRet'.op = "write" /\ lastRet'.value = p
WriteRefused == writer'.pc = "idle" /\ lastRet'.tag = "ProcessPoolError"
\* What the claims about write share: the callback's error becomes the
\* ProcessPoolError and no error the success, a write is taken by the OS
\* only before the exit, and a write that was taken has put the UTF-8 bytes
\* of the data behind what the process has not read yet.
WriteAfterGuard ==
    /\ (writer.pc = "callback" /\ writer'.pc = "idle") =>
          /\ lastRet'.op = "write"
          /\ lastRet'.tag = IF writer.err THEN "ProcessPoolError" ELSE "ok"
    /\ (lastRet'.op = "write" /\ lastRet'.tag = "ok") =>
          writer.pc = "callback" /\ ~writer.err
    /\ (writer.pc = "write" /\ writer'.pc = "callback") =>
          /\ procs[writer.managed].exited => writer'.err
          /\ ~writer'.err =>
                stdin'[writer.managed] = stdin[writer.managed] \o Utf8Encode(writer.data)

RECURSIVE Join(_)
Join(strings) == IF strings = <<>> THEN <<>> ELSE Head(strings) \o Join(Tail(strings))
\* What consumer k has collected and is still to collect: the text it handed
\* on, the text in its buffer, and the bytes on their way through the
\* process, read as text.
Pipeline(k) ==
    Join(consumers[k].collected)
        \o Join([j \in 1..Len(Buffered(k)) |-> Buffered(k)[j].text])
        \o ToStringUtf8(readable.out \o stdin[StreamProc])
\* The OS takes the data of a write in this step.
WriteTaken == writer.pc = "write" /\ writer'.pc = "callback" /\ ~writer'.err
\* The chunk the Readable hands out in this step.
Emitted == SubSeq(readable.out, 1, Len(readable.out) - Len(readable'.out))
\* It ends between the two bytes of a character.
EmissionSplitsChar ==
    /\ readable'.emitted # readable.emitted
    /\ Emitted # <<>> /\ Emitted[Len(Emitted)] = "C3"

\* C22 as stated: with a consumer of stdout running, every text that a
\* write has handed to the OS comes out of the pass-through process into
\* what the consumer collects, in write order and unchanged: a write adds
\* its text behind what is on its way, and no other step changes what is
\* collected and on its way.
C22_RoundTrip ==
    [][(Active(ConsumerSeq[1]) /\ Active(ConsumerSeq[1])') =>
          Pipeline(ConsumerSeq[1])' =
             IF WriteTaken THEN Pipeline(ConsumerSeq[1]) \o writer.data
             ELSE Pipeline(ConsumerSeq[1])]_vars

\* The round trip of C22 is broken by nothing else: it holds of every step
\* but an emission whose chunk ends between the bytes of a multi-byte
\* character (each chunk is decoded by itself).
C22_RoundTripOfWholeChars ==
    [][(Active(ConsumerSeq[1]) /\ Active(ConsumerSeq[1])' /\ ~EmissionSplitsChar) =>
          Pipeline(ConsumerSeq[1])' =
             IF WriteTaken THEN Pipeline(ConsumerSeq[1]) \o writer.data
             ELSE Pipeline(ConsumerSeq[1])]_vars
\* Two texts, one of them a two-byte character, were written and collected.
C22_Witness ==
    /\ Join(consumers[ConsumerSeq[1]].collected) = <<"a", "e-acute">>
    /\ stdin[StreamProc] = <<>> /\ readable.out = <<>>
    /\ lastRet.op = "write" /\ lastRet.tag = "ok"

\* Fiber f, in a pool.kill or pool.interrupt that has found its entry, takes
\* its step.
PoolSignalStep(f) == PoolSignalFound(f) /\ fibers'[f] # fibers[f]

\* C31: pool.kill(id) and pool.interrupt(id) affect only the named entry:
\* their lookup changes neither registry nor handles, and their signal and
\* removal steps leave every other id registered with the same handle and
\* every other process as it was (not signaled, status unchanged).
C31_SignalOnlyTheNamed ==
    [][\A f \in Callers :
          /\ (fibers[f].pc = "idle" /\ PoolSignalFound(f)') =>
                processes' = processes /\ procs' = procs
          /\ (lastRet'.op \in PoolSignalOps /\ lastRet'.tag = "ProcessNotFoundError") =>
                processes' = processes /\ procs' = procs
          /\ PoolSignalStep(f) =>
                /\ \A i \in Ids : i # fibers[f].id => processes'[i] = processes[i]
                /\ \A p \in Procs : p # fibers[f].managed => procs'[p] = procs[p]]_vars
\* A pool.kill or pool.interrupt has returned, its process was signaled, and
\* another id is registered with a running process that got no signal.
C31_Witness ==
    /\ lastRet.op \in PoolSignalOps /\ lastRet.tag = "ok"
    /\ ~HashMapHas(processes, lastRet.id)
    /\ \E p, q \in Procs :
          /\ p <= nprocs /\ q <= nprocs /\ p # q
          /\ procs[p].id = lastRet.id /\ procs[p].signals # <<>>
          /\ procs[q].id # lastRet.id /\ processes[procs[q].id] = q
          /\ procs[q].signals = <<>> /\ procs[q].currentStatus = "running"

\* The step is stream activity: an event of stdout or stderr, or the start,
\* a pull, the end or the cancellation of a run.
StreamStep == readable' # readable \/ stderr' # stderr \/ consumers' # consumers
\* Readable r reports an error in this step.
ErrorOn(r, rNext) == ~r.errored /\ rNext.errored
\* The runs changed by the step are those listening for 'error' on r, and
\* each of them is offered the failure.
DeliveredTo(r) ==
    \A k \in Consumers :
        consumers'[k] = IF k \in r.listeners["error"] THEN Emit(consumers[k], Fail)
                        ELSE consumers[k]

\* C32: stream activity never touches pool state: a step that is a chunk,
\* an end-of-stream or a stream error, or the start, end or cancellation of
\* a run, leaves the registry and every handle (its status with it) as they
\* were; and an error on one stream is delivered to the runs listening on
\* that stream and changes no other run.
C32_StreamsLeavePoolAlone ==
    [][/\ StreamStep => processes' = processes /\ procs' = procs
       /\ ErrorOn(readable, readable') => DeliveredTo(readable) /\ stderr' = stderr
       /\ ErrorOn(stderr, stderr') => DeliveredTo(stderr) /\ readable' = readable]_vars
\* stdout has failed and its run has ended with the failure while a run of
\* stderr goes on with nothing in its buffer, and the process is registered
\* and running as before.
C32_Witness ==
    /\ readable.errored /\ ~stderr.errored
    /\ \E k, h \in Consumers :
          /\ consumers[k].result = "ProcessPoolError"
          /\ h \in stderr.listeners["error"]
          /\ consumers[h].pc = "running" /\ consumers[h].queue = <<>>
    /\ processes[IdSeq[1]] = StreamProc
    /\ procs[StreamProc].currentStatus = "running"

\* The statuses a handle takes.
UsedStatuses == {"starting", "running", "stopping", "stopped", "error"}
\* The step is a termination asked for on process p: kill() or interrupt()
\* on its handle by a caller, by pool.kill / pool.interrupt, or by the loop
\* of killAllProcesses.
TerminationOf(p) ==
    \/ lastRet'.op \in ManagedOps /\ lastRet'.value = p
    \/ \E f \in Fibers :
          /\ fibers'[f] # fibers[f]
          /\ \/ fibers[f].pc \in {"kill_signal", "interrupt_signal"} /\ fibers[f].managed = p
             \/ fibers[f].pc = "killall_signal" /\ Head(fibers[f].todo) = p
\* The step is one of the removals of the pool for id i: an exit observer,
\* the end of a pool.kill / pool.interrupt, the clearing of killAllProcesses,
\* or the health check.
RemovalAt(i) ==
    \/ \E p \in Procs : procs[p].id = i /\ procs[p].exitObserver
                         /\ ~procs[p].exited /\ procs'[p].exited
    \/ \E f \in Callers : PoolSignalReturns(f) /\ fibers[f].id = i
    \/ \E f \in Fibers : fibers[f].pc = "killall_clear" /\ fibers'[f].pc = "idle"
    \/ sweeper.pc = "remove" /\ IdSeq[sweeper.idx] = i /\ sweeper' # sweeper

ExitObserved(p) == procs[p].exitObserver /\ ~procs[p].exited /\ procs'[p].exited

\* C34: the exit notification of a process removes only that process's own
\* entry: an entry that belongs to another process (a later one registered
\* under the same id after pool.kill / pool.interrupt) stays.
C34_ExitRemovesOwnEntry ==
    [][\A p \in Procs :
          (p <= nprocs /\ ExitObserved(p)) =>
             \A i \in Ids : processes[i] # p => processes'[i] = processes[i]]_vars

\* Process p was handed to a caller by a successful spawn, is alive and
\* running, and no signal was sent to it.
LiveUnsignaled(p) ==
    /\ p <= nprocs /\ procs[p].escaped /\ procs[p].pid
    /\ ~procs[p].exited /\ procs[p].signals = <<>>
    /\ procs[p].currentStatus = "running"

\* Process p is held by the registry under its id.
Held(p) == GetResult(processes, procs[p].id).value = p

\* C35: every process of a successful spawn that is alive and was not sent a
\* signal is held by the registry under its id; in particular a spawn, when
\* it registers its process and returns, leaves every such process held:
\* it replaces no entry.
C35_SpawnKeepsLiveEntries ==
    [][\A f \in Callers : SpawnReturns(f) =>
          \A p \in Procs : (LiveUnsignaled(p) /\ Held(p)) => Held(p)']_vars

\* The OS processes the pool has created that have not exited.
Alive == {p \in Procs : p <= nprocs /\ procs[p].pid /\ ~procs[p].exited}

\* C36: in every reachable state at most maxConcurrent of the OS processes
\* created by the pool have not exited yet, signaled or not.
C36_AliveWithinLimit == Cardinality(Alive) <= config.maxConcurrent

\* Fiber f clears the registry in this step, at the end of killAllProcesses.
ClearStep(f) == fibers[f].pc = "killall_clear" /\ fibers'[f].pc = "idle"

\* C37: killAll and the finalizer drop from the registry only processes
\* they have signaled: every entry that the clearing removes holds a process
\* that was sent a signal (or had exited, or whose signal the OS refused,
\* when kill() was called on it).
C37_ClearDropsOnlySignaled ==
    [][\A f \in Fibers : ClearStep(f) =>
          \A i \in Ids : HashMapHas(processes, i) =>
             LET p == processes[i] IN
             \/ procs[p].signals # <<>>
             \/ procs[p].exited
             \/ procs[p].currentStatus = "error"]_vars

\* C38: at most one termination signal is issued to a process through its
\* handle: once a signal has been delivered, no step (kill() or interrupt()
\* by a caller, pool.kill, pool.interrupt, killAll or the finalizer) adds
\* another, so a SIGINT is never followed by a SIGTERM.
C38_OneSignalPerProcess ==
    [][\A p \in Procs :
          /\ Len(procs'[p].signals) <= 1
          /\ procs[p].signals # <<>> => procs'[p].signals = procs[p].signals]_vars
\* kill() has just returned on the handle of a process that had been
\* interrupted and has not exited: it is left with its SIGINT alone.
C38_Witness ==
    /\ lastRet.op = "managed.kill" /\ lastRet.tag = "ok"
    /\ \E p \in Procs :
          /\ p <= nprocs /\ lastRet.value = p
          /\ procs[p].signals = <<"SIGINT">> /\ ~procs[p].exited
          /\ procs[p].currentStatus = "stopping"

\* C39: once the finalizer of the pool has run, every process created
\* through the pool that is alive has been sent a termination signal (or the
\* OS refused it), whatever was called on the pool, before or after the
\* scope closed.
C39_NothingSurvivesFinalizer ==
    ScopeEnded =>
        \A p \in Alive : procs[p].signals # <<>> \/ procs[p].currentStatus = "error"

\* C40: every run of managed.stdout ends once the channel has ended, also a
\* run started after the end: a run in progress on an ended channel always
\* has the end (or a chunk before it) in its buffer to take next, so that
\* it is never left waiting for an event that cannot come any more.
C40_RunEndsAfterEnd ==
    \A k \in Consumers :
        (consumers[k].pc = "running" /\ readable.ended) => consumers[k].queue # <<>>

====
